---- MODULE Spec2Model ----
(***************************************************************************)
(* Model of the traefik "headers" middleware                               *)
(* (middlewares/headers/headers.go) and of the response modifier built by  *)
(* responsemodifiers.buildHeaders.                                         *)
(*                                                                         *)
(* Three specifications are given:                                           *)
(*   Spec      the handler chain built by New, serving NumReq requests     *)
(*             concurrently.  The only state shared between requests is    *)
(*             the field Header.originHeader; every access to it is an     *)
(*             atomic step of its own, the request-local work around it is *)
(*             folded into the step.                                       *)
(*             A racing read returns the value of one of the writes (the   *)
(*             value before or after a concurrent write); Go promises not  *)
(*             even that for a string, so the races found here are a lower *)
(*             bound of what a build can do.                               *)
(*   SpecSeq   the same chain serving one request at a time, over a wider  *)
(*             set of policies.                                            *)
(*   SpecUnit  direct calls of getAllowOrigin, modifyRequestHeaders,       *)
(*             ModifyResponseHeaders, Header.ServeHTTP, New and the        *)
(*             closure of buildHeaders on inputs drawn from bounded sets.  *)
(***************************************************************************)
EXTENDS Naturals, Integers, Sequences, FiniteSets, TLC

VARIABLES
    cfg,           \* config.Headers of the route (never written after Init)
    originHeader,  \* Header.originHeader of the chain's Header instance
    pc,            \* per request: position in the chain
    req,           \* per request: the *http.Request (Method, Header)
    rw,            \* per request: the ResponseWriter's header collection
    reqAcMethod,   \* per request: local of Header.ServeHTTP
    reqAcHeaders,  \* per request: local of Header.ServeHTTP
    origin216,     \* per request: s.originHeader as read at line 216
    trace,         \* per request: the stages that ran, in order
    res,           \* per request: the backend response after the modifier
    call           \* SpecUnit: the direct call under test

vars == <<cfg, originHeader, pc, req, rw, reqAcMethod, reqAcHeaders,
          origin216, trace, res, call>>

chainVars == <<originHeader, pc, req, rw, reqAcMethod, reqAcHeaders,
               origin216, trace, res>>

(***************************************************************************)
(* Bounds                                                                  *)
(***************************************************************************)
\* number of requests served concurrently by one chain
NumReq == 2

Reqs == 1..NumReq

(***************************************************************************)
(* Strings                                                                 *)
(***************************************************************************)
lowerAlphabet == "abcdefghijklmnopqrstuvwxyz"
upperAlphabet == "ABCDEFGHIJKLMNOPQRSTUVWXYZ"

CharAt(s, i) == SubSeq(s, i, i)

IndexIn(alphabet, c) ==
    IF \E i \in 1..Len(alphabet) : CharAt(alphabet, i) = c
    THEN CHOOSE i \in 1..Len(alphabet) : CharAt(alphabet, i) = c
    ELSE 0

ToUpper(c) ==
    IF IndexIn(lowerAlphabet, c) > 0
    THEN CharAt(upperAlphabet, IndexIn(lowerAlphabet, c)) ELSE c

ToLower(c) ==
    IF IndexIn(upperAlphabet, c) > 0
    THEN CharAt(lowerAlphabet, IndexIn(upperAlphabet, c)) ELSE c

\* textproto.CanonicalMIMEHeaderKey: the first letter and every letter after
\* a hyphen in upper case, every other letter in lower case.
RECURSIVE canonicalFrom(_, _, _)
canonicalFrom(s, i, upper) ==
    IF i > Len(s) THEN ""
    ELSE LET c == CharAt(s, i)
         IN (IF upper THEN ToUpper(c) ELSE ToLower(c))
            \o canonicalFrom(s, i + 1, c = "-")

\* the header names the model uses, as the code and the configurations write them
KnownNames ==
    {"Origin", "Vary", "Access-Control-Request-Method",
     "Access-Control-Request-Headers", "Access-Control-Allow-Credentials",
     "Access-Control-Allow-Headers", "Access-Control-Allow-Methods",
     "Access-Control-Allow-Origin", "Access-Control-Max-Age",
     "Access-Control-Expose-Headers", "X-Custom", "x-custom", "X-Other",
     "X-Frame-Options"}

canonicalOfKnown == [n \in KnownNames |-> canonicalFrom(n, 1, TRUE)]

CanonicalMIMEHeaderKey(s) ==
    IF s \in KnownNames THEN canonicalOfKnown[s] ELSE canonicalFrom(s, 1, TRUE)

\* strings.Join(elems, sep)
RECURSIVE Join(_, _)
Join(elems, sep) ==
    IF Len(elems) = 0 THEN ""
    ELSE IF Len(elems) = 1 THEN elems[1]
    ELSE elems[1] \o sep \o Join(Tail(elems), sep)

digits == "0123456789"

RECURSIVE itoaNat(_)
itoaNat(n) ==
    IF n < 10 THEN CharAt(digits, n + 1)
    ELSE itoaNat(n \div 10) \o CharAt(digits, (n % 10) + 1)

\* strconv.Itoa
Itoa(n) == IF n < 0 THEN "-" \o itoaNat(0 - n) ELSE itoaNat(n)

(***************************************************************************)
(* http.Header: a map from canonical key to the list of its values.  A     *)
(* collection is the record [nil, kv, panicked]: nil is a nil map, kv the  *)
(* entries, and panicked records that a write hit the nil map ("assignment *)
(* to entry in nil map"), after which no later statement runs.             *)
(***************************************************************************)
NoEntries == [k \in {} |-> <<>>]

Put(f, k, v) == [x \in (DOMAIN f) \cup {k} |-> IF x = k THEN v ELSE f[x]]

Remove(f, k) == [x \in (DOMAIN f) \ {k} |-> f[x]]

MakeHeader(kv) == [nil |-> FALSE, kv |-> kv, panicked |-> FALSE]

EmptyHeader == MakeHeader(NoEntries)

NilHeader == [nil |-> TRUE, kv |-> NoEntries, panicked |-> FALSE]

\* Header.Get: the first value of the key, "" when there is none
Get(h, key) ==
    LET k == CanonicalMIMEHeaderKey(key)
    IN IF k \in DOMAIN h.kv /\ Len(h.kv[k]) > 0 THEN h.kv[k][1] ELSE ""

\* Header.Set: replaces every value of the key by the one value
Set(h, key, value) ==
    IF h.panicked THEN h
    ELSE IF h.nil THEN [h EXCEPT !.panicked = TRUE]
    ELSE [h EXCEPT !.kv = Put(h.kv, CanonicalMIMEHeaderKey(key), <<value>>)]

\* Header.Add: appends the value to the values of the key
Add(h, key, value) ==
    IF h.panicked THEN h
    ELSE IF h.nil THEN [h EXCEPT !.panicked = TRUE]
    ELSE LET k == CanonicalMIMEHeaderKey(key)
             old == IF k \in DOMAIN h.kv THEN h.kv[k] ELSE <<>>
         IN [h EXCEPT !.kv = Put(h.kv, k, Append(old, value))]

\* Header.Del: removes the key; a no-op on a nil map
Del(h, key) ==
    IF h.panicked THEN h
    ELSE [h EXCEPT !.kv = Remove(h.kv, CanonicalMIMEHeaderKey(key))]

\* every value of the key, over all its field lines
Values(h, key) ==
    LET k == CanonicalMIMEHeaderKey(key)
    IN IF k \in DOMAIN h.kv THEN h.kv[k] ELSE <<>>

\* `if cond { h.Set(key, value) }` and `if cond { h.Add(key, value) }`
setIf(cond, h, key, value) == IF cond THEN Set(h, key, value) ELSE h

addIf(cond, h, key, value) == IF cond THEN Add(h, key, value) ELSE h

(***************************************************************************)
(* Go map iteration: `range` visits the keys in an unspecified order.      *)
(***************************************************************************)
Orders(m) ==
    {o \in [1..Cardinality(DOMAIN m) -> DOMAIN m] :
        \A i, j \in DOMAIN o : i # j => o[i] # o[j]}

(***************************************************************************)
(* config.Headers                                                          *)
(***************************************************************************)
NoMap == [k \in {} |-> ""]

OneMap(k, v) == [x \in {k} |-> v]

TwoMap(k1, v1, k2, v2) == [x \in {k1, k2} |-> IF x = k1 THEN v1 ELSE v2]

\* Secure stands for the options of the secure-header engine (unrolled/secure):
\* TRUE when at least one of them is set.
Headers(crq, crs, cred, ah, am, ao, eh, age, vary, sec) ==
    [CustomRequestHeaders          |-> crq,
     CustomResponseHeaders         |-> crs,
     AccessControlAllowCredentials |-> cred,
     AccessControlAllowHeaders     |-> ah,
     AccessControlAllowMethods     |-> am,
     AccessControlAllowOrigin      |-> ao,
     AccessControlExposeHeaders    |-> eh,
     AccessControlMaxAge           |-> age,
     AddVaryHeader                 |-> vary,
     Secure                        |-> sec]

HasSecureHeadersDefined(h) == h.Secure

HasCustomHeadersDefined(h) ==
    \/ DOMAIN h.CustomResponseHeaders # {}
    \/ DOMAIN h.CustomRequestHeaders # {}

HasCorsHeadersDefined(h) ==
    \/ h.AccessControlAllowCredentials
    \/ Len(h.AccessControlAllowHeaders) # 0
    \/ Len(h.AccessControlAllowMethods) # 0
    \/ h.AccessControlAllowOrigin # ""
    \/ Len(h.AccessControlExposeHeaders) # 0
    \/ h.AccessControlMaxAge # 0
    \/ h.AddVaryHeader

(***************************************************************************)
(* New: the chain of handlers, outermost first.  "next" is the handler     *)
(* New was given (the backend side of the route).                          *)
(***************************************************************************)
NewHeader(next, headers) ==
    [next |-> next, headers |-> headers, originHeader |-> ""]

\* New with the two handlers wrapped the other way round
NewSecureFirst(config) ==
    LET hasSecureHeaders == HasSecureHeadersDefined(config)
        hasCustomHeaders == HasCustomHeadersDefined(config)
        hasCorsHeaders   == HasCorsHeadersDefined(config)
        inner == IF hasCustomHeaders \/ hasCorsHeaders
                 THEN <<"Header", "next">> ELSE <<"next">>
        handler == IF hasSecureHeaders THEN <<"secureHeader">> \o inner ELSE inner
    IN IF ~hasSecureHeaders /\ ~hasCustomHeaders /\ ~hasCorsHeaders
       THEN [err |-> "headers configuration not valid", handler |-> <<>>]
       ELSE [err |-> "nil", handler |-> handler]

\* New that installs the bare next handler when nothing is configured
NewAlwaysHandler(config) ==
    LET hasSecureHeaders == HasSecureHeadersDefined(config)
        hasCustomHeaders == HasCustomHeadersDefined(config)
        hasCorsHeaders   == HasCorsHeadersDefined(config)
        nextHandler == IF hasSecureHeaders THEN <<"secureHeader", "next">>
                       ELSE <<"next">>
        handler == IF hasCustomHeaders \/ hasCorsHeaders
                   THEN <<"Header">> \o nextHandler
                   ELSE nextHandler
    IN [err |-> "nil", handler |-> handler]

New(config) ==
    LET hasSecureHeaders == HasSecureHeadersDefined(config)
        hasCustomHeaders == HasCustomHeadersDefined(config)
        hasCorsHeaders   == HasCorsHeadersDefined(config)
        nextHandler == IF hasSecureHeaders THEN <<"secureHeader", "next">>
                       ELSE <<"next">>
        handler == IF hasCustomHeaders \/ hasCorsHeaders
                   THEN <<"Header">> \o nextHandler
                   ELSE nextHandler
    IN IF ~hasSecureHeaders /\ ~hasCustomHeaders /\ ~hasCorsHeaders
       THEN [err |-> "headers configuration not valid", handler |-> <<>>]
       ELSE [err |-> "nil", handler |-> handler]

(***************************************************************************)
(* Header.getAllowOrigin.  s.originHeader is read at line 216 and again at *)
(* line 219; a call that runs alone reads the same value twice.            *)
(***************************************************************************)
\* getAllowOrigin that forgets the request's Origin
getAllowOriginAlwaysNull(headers, originAt216, originAt219) ==
    CASE headers.AccessControlAllowOrigin = "origin-list-or-null" -> "null"
      [] headers.AccessControlAllowOrigin = "*" -> "*"
      [] OTHER -> ""

\* getAllowOrigin that passes an explicit origin through
getAllowOriginExplicit(headers, originAt216, originAt219) ==
    CASE headers.AccessControlAllowOrigin = "origin-list-or-null" ->
            IF originAt216 = "" THEN "null" ELSE originAt219
      [] headers.AccessControlAllowOrigin = "*" -> "*"
      [] OTHER -> headers.AccessControlAllowOrigin

getAllowOrigin(headers, originAt216, originAt219) ==
    CASE headers.AccessControlAllowOrigin = "origin-list-or-null" ->
            IF originAt216 = "" THEN "null" ELSE originAt219
      [] headers.AccessControlAllowOrigin = "*" -> "*"
      [] OTHER -> ""

(***************************************************************************)
(* Header.modifyRequestHeaders and the custom-header loop of               *)
(* ModifyResponseHeaders: one Del or Set per entry, in the order `range`   *)
(* happens to visit them.                                                  *)
(***************************************************************************)
\* the loop with Add where the code has Set
RECURSIVE applyCustomAdd(_, _, _, _)
applyCustomAdd(h, custom, order, i) ==
    IF i > Len(order) THEN h
    ELSE LET header == order[i]
             value == custom[header]
         IN applyCustomAdd(IF value = "" THEN Del(h, header)
                           ELSE Add(h, header, value),
                           custom, order, i + 1)

RECURSIVE applyCustom(_, _, _, _)
applyCustom(h, custom, order, i) ==
    IF i > Len(order) THEN h
    ELSE LET header == order[i]
             value == custom[header]
         IN applyCustom(IF value = "" THEN Del(h, header)
                        ELSE Set(h, header, value),
                        custom, order, i + 1)

modifyRequestHeaders(s, reqHeader, order) ==
    applyCustom(reqHeader, s.headers.CustomRequestHeaders, order, 1)

(***************************************************************************)
(* Header.ModifyResponseHeaders                                            *)
(***************************************************************************)
\* lines 188-198 with ", " as the separator
setAllowOriginSpace(s, h, allowOrigin) ==
    LET h1 == Set(h, "Access-Control-Allow-Origin", allowOrigin)
        varyHeader == Get(h1, "Vary")
    IN setIf(s.headers.AddVaryHeader, h1, "Vary",
             IF varyHeader # "" THEN varyHeader \o ", Origin" ELSE "Origin")

\* lines 188-198, run when allowOrigin is not empty
setAllowOrigin(s, h, allowOrigin) ==
    LET h1 == Set(h, "Access-Control-Allow-Origin", allowOrigin)
        varyHeader == Get(h1, "Vary")
    IN setIf(s.headers.AddVaryHeader, h1, "Vary",
             IF varyHeader # "" THEN varyHeader \o ",Origin" ELSE "Origin")

\* lines 185-199
resolveAllowOrigin(s, h, allowOrigin) ==
    IF allowOrigin # "" THEN setAllowOrigin(s, h, allowOrigin) ELSE h

\* lines 205-208
setExposeHeaders(h, exposeHeaders) ==
    setIf(exposeHeaders # "", h, "Access-Control-Expose-Headers", exposeHeaders)

\* ModifyResponseHeaders with the credentials header inside the
\* `allowOrigin != ""` block
ModifyResponseHeadersCredentialsWithOrigin(s, resHeader, order) ==
    [Header |->
        setExposeHeaders(
            setIf(s.headers.AccessControlAllowCredentials
                     /\ getAllowOrigin(s.headers, s.originHeader, s.originHeader) # "",
                  resolveAllowOrigin(s,
                      applyCustom(resHeader, s.headers.CustomResponseHeaders,
                                  order, 1),
                      getAllowOrigin(s.headers, s.originHeader, s.originHeader)),
                  "Access-Control-Allow-Credentials", "true"),
            Join(s.headers.AccessControlExposeHeaders, ",")),
     err |-> "nil"]

ModifyResponseHeaders(s, resHeader, order) ==
    [Header |->
        setExposeHeaders(
            setIf(s.headers.AccessControlAllowCredentials,
                  resolveAllowOrigin(s,
                      applyCustom(resHeader, s.headers.CustomResponseHeaders,
                                  order, 1),
                      getAllowOrigin(s.headers, s.originHeader, s.originHeader)),
                  "Access-Control-Allow-Credentials", "true"),
            Join(s.headers.AccessControlExposeHeaders, ",")),
     err |-> "nil"]

(***************************************************************************)
(* responsemodifiers.buildHeaders: the closure applied to a response.      *)
(* secure.ModifyResponseHeaders belongs to the external engine: it sets    *)
(* security headers and returns secureErr, an outcome the model chooses.   *)
(***************************************************************************)
SecureModifyResponseHeaders(resHeader, secureErr) ==
    [Header |-> IF secureErr = "nil"
                THEN Set(resHeader, "X-Frame-Options", "DENY")
                ELSE resHeader,
     err |-> secureErr]

\* lines 43-50 of the closure: the secure engine, when it is configured and
\* the rewriter before it neither failed nor panicked
secureStage(hdrs, custom, ran, secureErr) ==
    IF custom.err = "nil" /\ ~custom.Header.panicked /\ HasSecureHeadersDefined(hdrs)
    THEN [Header |-> SecureModifyResponseHeaders(custom.Header, secureErr).Header,
          err |-> secureErr,
          ran |-> Append(ran, "secure.ModifyResponseHeaders")]
    ELSE [Header |-> custom.Header, err |-> custom.err, ran |-> ran]

\* the closure with the secure engine ahead of the rewriter
buildHeadersSecureFirst(hdrs, resHeader, order, secureErr) ==
    IF HasSecureHeadersDefined(hdrs) /\ secureErr # "nil"
    THEN [Header |-> resHeader, err |-> secureErr,
          ran |-> <<"secure.ModifyResponseHeaders">>]
    ELSE [Header |->
             IF HasCustomHeadersDefined(hdrs) \/ HasCorsHeadersDefined(hdrs)
             THEN ModifyResponseHeaders(NewHeader("nil", hdrs),
                      IF HasSecureHeadersDefined(hdrs)
                      THEN SecureModifyResponseHeaders(resHeader, secureErr).Header
                      ELSE resHeader,
                      order).Header
             ELSE IF HasSecureHeadersDefined(hdrs)
                  THEN SecureModifyResponseHeaders(resHeader, secureErr).Header
                  ELSE resHeader,
          err |-> "nil",
          ran |-> (IF HasSecureHeadersDefined(hdrs)
                   THEN <<"secure.ModifyResponseHeaders">> ELSE <<>>)
                  \o (IF HasCustomHeadersDefined(hdrs) \/ HasCorsHeadersDefined(hdrs)
                      THEN <<"ModifyResponseHeaders">> ELSE <<>>)]

buildHeaders(hdrs, resHeader, order, secureErr) ==
    IF HasCustomHeadersDefined(hdrs) \/ HasCorsHeadersDefined(hdrs)
    THEN secureStage(hdrs,
                     ModifyResponseHeaders(NewHeader("nil", hdrs), resHeader, order),
                     <<"ModifyResponseHeaders">>, secureErr)
    ELSE secureStage(hdrs, [Header |-> resHeader, err |-> "nil"], <<>>, secureErr)

(***************************************************************************)
(* Inputs                                                                  *)
(***************************************************************************)
Request(method, origin, acMethod, acHeaders, custom) ==
    [Method |-> method,
     Header |->
        setIf(custom # "",
            setIf(acHeaders # "",
                setIf(acMethod # "",
                    setIf(origin # "", EmptyHeader, "Origin", origin),
                    "Access-Control-Request-Method", acMethod),
                "Access-Control-Request-Headers", acHeaders),
            "X-Custom", custom)]

\* the requests a client sends: the two preflights of two origins, the
\* requests that miss one of the four preflight conditions, a plain GET
Requests ==
    {Request("OPTIONS", "http://a", "GET", "X-Foo", ""),
     Request("OPTIONS", "http://b", "GET", "X-Foo", ""),
     Request("OPTIONS", "", "GET", "X-Foo", ""),
     Request("GET", "http://a", "GET", "X-Foo", "client"),
     Request("OPTIONS", "http://a", "", "X-Foo", ""),
     Request("OPTIONS", "http://b", "GET", "", ""),
     Request("GET", "", "", "", "client")}

\* the header collections of the responses a backend returns (never nil:
\* http.Transport allocates the map)
BackendHeaders ==
    {EmptyHeader,
     MakeHeader(OneMap("Vary", <<"Accept-Encoding">>))}

\* the outcomes of the secure engine's ModifyResponseHeaders
SecureErrs == {"nil", "secure: error"}

AllowHeadersSets == {<<>>, <<"X-Foo", "X-Bar">>}
AllowMethodsSets == {<<>>, <<"GET", "PUT">>}
AllowOrigins == {"", "*", "origin-list-or-null", "http://a"}
MaxAges == {0, 600}

\* the policies of the concurrent chain
RacePolicies ==
    {Headers(crq, NoMap, cred, <<"X-Foo", "X-Bar">>, <<"GET", "PUT">>, ao,
             <<>>, 600, TRUE, sec) :
        crq \in {OneMap("X-Custom", "v")},
        cred \in BOOLEAN,
        ao \in {"*", "origin-list-or-null"},
        sec \in BOOLEAN}

\* the policies of the chain that serves one request at a time
SeqPolicies ==
    {Headers(crq, NoMap, cred, ah, am, ao, <<>>, age, vary, sec) :
        crq \in {NoMap, OneMap("X-Custom", "v"), OneMap("X-Custom", "")},
        cred \in BOOLEAN,
        ah \in AllowHeadersSets,
        am \in AllowMethodsSets,
        ao \in AllowOrigins,
        age \in MaxAges,
        vary \in BOOLEAN,
        sec \in BOOLEAN}

(***************************************************************************)
(* The chain, request by request                                           *)
(***************************************************************************)
NoCall == [op |-> "none", pc |-> "none"]

NoRequest == [Method |-> "", Header |-> EmptyHeader]

NoResponse == [backend |-> EmptyHeader, Header |-> EmptyHeader,
               err |-> "nil", ran |-> <<>>]

InitChain ==
    /\ originHeader = ""
    /\ pc = [r \in Reqs |-> "idle"]
    /\ req = [r \in Reqs |-> NoRequest]
    /\ rw = [r \in Reqs |-> EmptyHeader]
    /\ reqAcMethod = [r \in Reqs |-> ""]
    /\ reqAcHeaders = [r \in Reqs |-> ""]
    /\ origin216 = [r \in Reqs |-> ""]
    /\ trace = [r \in Reqs |-> <<>>]
    /\ res = [r \in Reqs |-> NoResponse]

Init ==
    /\ cfg \in RacePolicies
    /\ InitChain
    /\ call = NoCall

InitSeq ==
    /\ cfg \in SeqPolicies
    /\ InitChain
    /\ call = NoCall

\* where a handler of the chain starts
Entry(handler) ==
    CASE handler = "Header" -> "Header.126"
      [] handler = "secureHeader" -> "secureHeader"
      [] OTHER -> "next"

\* the handlers after the first one named `handler`
RECURSIVE NextOf(_, _)
NextOf(chain, handler) ==
    IF Len(chain) = 0 THEN <<>>
    ELSE IF chain[1] = handler THEN Tail(chain)
    ELSE NextOf(Tail(chain), handler)

\* headers.ServeHTTP: a request enters the handler New returned
Arrive(r) ==
    /\ pc[r] = "idle"
    /\ New(cfg).err = "nil"
    /\ \E q \in Requests :
          req' = [req EXCEPT ![r] = q]
    /\ pc' = [pc EXCEPT ![r] = Entry(New(cfg).handler[1])]
    /\ UNCHANGED <<cfg, originHeader, rw, reqAcMethod, reqAcHeaders, origin216,
                   trace, res, call>>

\* Header.ServeHTTP, lines 126-128: the write of the shared field
ServeHTTP128(r) ==
    /\ pc[r] = "Header.126"
    /\ reqAcMethod' = [reqAcMethod EXCEPT
                          ![r] = Get(req[r].Header, "Access-Control-Request-Method")]
    /\ reqAcHeaders' = [reqAcHeaders EXCEPT
                          ![r] = Get(req[r].Header, "Access-Control-Request-Headers")]
    /\ originHeader' = Get(req[r].Header, "Origin")
    /\ pc' = [pc EXCEPT ![r] = "Header.130"]
    /\ UNCHANGED <<cfg, req, rw, origin216, trace, res, call>>

\* line 130
isPreflight(acMethod, acHeaders, origin, method) ==
    acMethod # "" /\ acHeaders # "" /\ origin # "" /\ method = "OPTIONS"

\* lines 132-144
preflightHead(headers, rwHeader) ==
    addIf(Join(headers.AccessControlAllowMethods, ",") # "",
        addIf(Join(headers.AccessControlAllowHeaders, ",") # "",
            addIf(headers.AccessControlAllowCredentials, rwHeader,
                  "Access-Control-Allow-Credentials", "true"),
            "Access-Control-Allow-Headers",
            Join(headers.AccessControlAllowHeaders, ",")),
        "Access-Control-Allow-Methods",
        Join(headers.AccessControlAllowMethods, ","))

\* lines 148-152 with Max-Age left out when it is 0
preflightTailSkipZero(headers, rwHeader, allowOrigin) ==
    addIf(headers.AccessControlMaxAge # 0,
          addIf(allowOrigin # "", rwHeader, "Access-Control-Allow-Origin", allowOrigin),
          "Access-Control-Max-Age", Itoa(headers.AccessControlMaxAge))

\* lines 148-152
preflightTail(headers, rwHeader, allowOrigin) ==
    Add(addIf(allowOrigin # "", rwHeader, "Access-Control-Allow-Origin", allowOrigin),
        "Access-Control-Max-Age", Itoa(headers.AccessControlMaxAge))

\* Header.ServeHTTP, line 130 (a read of the shared field) and the branch it
\* takes: the preflight response up to the call of getAllowOrigin, or the
\* request rewrite and the call of s.next
ServeHTTP130(r) ==
    /\ pc[r] = "Header.130"
    /\ IF isPreflight(reqAcMethod[r], reqAcHeaders[r], originHeader, req[r].Method)
       THEN /\ rw' = [rw EXCEPT ![r] = preflightHead(cfg, rw[r])]
            /\ trace' = [trace EXCEPT ![r] = Append(trace[r], "preflight")]
            /\ pc' = [pc EXCEPT ![r] = "Header.216"]
            /\ UNCHANGED req
       ELSE /\ \E order \in Orders(cfg.CustomRequestHeaders) :
                  req' = [req EXCEPT ![r].Header =
                             modifyRequestHeaders(NewHeader("next", cfg),
                                                  req[r].Header, order)]
            /\ trace' = [trace EXCEPT ![r] = Append(trace[r], "modifyRequestHeaders")]
            /\ pc' = [pc EXCEPT ![r] = Entry(NextOf(New(cfg).handler, "Header")[1])]
            /\ UNCHANGED rw
    /\ UNCHANGED <<cfg, originHeader, reqAcMethod, reqAcHeaders, origin216, res, call>>

\* getAllowOrigin called at line 146: the read of line 216; the call returns
\* here unless line 219 has to read s.originHeader again
GetAllowOrigin216(r) ==
    /\ pc[r] = "Header.216"
    /\ IF cfg.AccessControlAllowOrigin = "origin-list-or-null" /\ originHeader # ""
       THEN /\ origin216' = [origin216 EXCEPT ![r] = originHeader]
            /\ pc' = [pc EXCEPT ![r] = "Header.219"]
            /\ UNCHANGED rw
       ELSE /\ rw' = [rw EXCEPT ![r] =
                        preflightTail(cfg, rw[r],
                            getAllowOrigin(cfg, originHeader, originHeader))]
            /\ pc' = [pc EXCEPT ![r] = "done"]
            /\ UNCHANGED origin216
    /\ UNCHANGED <<cfg, originHeader, req, reqAcMethod, reqAcHeaders, trace, res, call>>

\* the read of line 219, and lines 148-152
GetAllowOrigin219(r) ==
    /\ pc[r] = "Header.219"
    /\ rw' = [rw EXCEPT ![r] =
                 preflightTail(cfg, rw[r],
                     getAllowOrigin(cfg, origin216[r], originHeader))]
    /\ pc' = [pc EXCEPT ![r] = "done"]
    /\ UNCHANGED <<cfg, originHeader, req, reqAcMethod, reqAcHeaders, origin216,
                   trace, res, call>>

\* secureHeader.ServeHTTP: the engine's HandlerFuncWithNextForRequestOnly
\* either answers the request itself (a redirect, a rejected host) or calls
\* s.next
SecureServeHTTP(r) ==
    /\ pc[r] = "secureHeader"
    /\ \E terminate \in BOOLEAN :
          IF terminate
          THEN /\ trace' = [trace EXCEPT ![r] = Append(trace[r], "secure.terminate")]
               /\ pc' = [pc EXCEPT ![r] = "done"]
          ELSE /\ trace' = [trace EXCEPT ![r] = Append(trace[r], "secure")]
               /\ pc' = [pc EXCEPT ![r] =
                            Entry(NextOf(New(cfg).handler, "secureHeader")[1])]
    /\ UNCHANGED <<cfg, originHeader, req, rw, reqAcMethod, reqAcHeaders,
                   origin216, res, call>>

\* the handler New was given: the backend answers and the proxy applies the
\* closure of buildHeaders to the response
Backend(r) ==
    /\ pc[r] = "next"
    /\ \E b \in BackendHeaders, order \in Orders(cfg.CustomResponseHeaders),
          secureErr \in SecureErrs :
          LET out == buildHeaders(cfg, b, order, secureErr)
          IN res' = [res EXCEPT ![r] = [backend |-> b, Header |-> out.Header,
                                        err |-> out.err, ran |-> out.ran]]
    /\ trace' = [trace EXCEPT ![r] = Append(trace[r], "next")]
    /\ pc' = [pc EXCEPT ![r] = "done"]
    /\ UNCHANGED <<cfg, originHeader, req, rw, reqAcMethod, reqAcHeaders,
                   origin216, call>>

\* the transaction is over: the request, its response writer and the locals
\* of its handlers are gone; the shared field keeps what was last written
Finish(r) ==
    /\ pc[r] = "done"
    /\ pc' = [pc EXCEPT ![r] = "idle"]
    /\ req' = [req EXCEPT ![r] = NoRequest]
    /\ rw' = [rw EXCEPT ![r] = EmptyHeader]
    /\ reqAcMethod' = [reqAcMethod EXCEPT ![r] = ""]
    /\ reqAcHeaders' = [reqAcHeaders EXCEPT ![r] = ""]
    /\ origin216' = [origin216 EXCEPT ![r] = ""]
    /\ trace' = [trace EXCEPT ![r] = <<>>]
    /\ res' = [res EXCEPT ![r] = NoResponse]
    /\ UNCHANGED <<cfg, originHeader, call>>

Step(r) ==
    \/ ServeHTTP128(r)
    \/ ServeHTTP130(r)
    \/ GetAllowOrigin216(r)
    \/ GetAllowOrigin219(r)
    \/ SecureServeHTTP(r)
    \/ Backend(r)
    \/ Finish(r)

Next == \E r \in Reqs : Arrive(r) \/ Step(r)

Spec == Init /\ [][Next]_vars

\* one request at a time
ArriveAlone(r) ==
    /\ \A other \in Reqs : pc[other] = "idle"
    /\ Arrive(r)

NextSeq == \E r \in Reqs : ArriveAlone(r) \/ Step(r)

SpecSeq == InitSeq /\ [][NextSeq]_vars

(***************************************************************************)
(* Direct calls: one function applied to inputs drawn from bounded sets    *)
(***************************************************************************)
Origins == {"", "http://a", "http://b"}

\* custom-header mappings; one of them holds two spellings of one header name
CustomMaps ==
    {NoMap,
     OneMap("X-Custom", "v"),
     OneMap("X-Custom", ""),
     TwoMap("X-Custom", "v", "X-Other", ""),
     TwoMap("x-custom", "", "X-Custom", "v"),
     OneMap("Vary", ""),
     OneMap("Vary", "X-Other"),
     OneMap("Access-Control-Allow-Origin", "http://c")}

\* header collections of requests and responses
UnitHeaders ==
    {EmptyHeader,
     MakeHeader(OneMap("Vary", <<"Accept-Encoding">>)),
     MakeHeader(OneMap("Vary", <<"Origin">>)),
     MakeHeader(OneMap("Vary", <<"Accept-Encoding", "Cookie">>)),
     MakeHeader(OneMap("X-Custom", <<"old">>)),
     MakeHeader(TwoMap("X-Custom", <<"old", "older">>, "Vary", <<"Accept-Encoding">>)),
     MakeHeader(OneMap("Access-Control-Allow-Origin", <<"http://old">>))}

ResolvePolicies ==
    {Headers(NoMap, NoMap, FALSE, <<>>, <<>>, ao, <<>>, 0, FALSE, FALSE) :
        ao \in AllowOrigins \cup {"http://a,http://b", "null"}}

RequestPolicies ==
    {Headers(crq, NoMap, FALSE, <<>>, <<>>, "", <<>>, 0, FALSE, FALSE) :
        crq \in CustomMaps}

ResponsePolicies ==
    {Headers(NoMap, crs, cred, <<>>, <<>>, ao, eh, 0, vary, FALSE) :
        crs \in CustomMaps,
        cred \in BOOLEAN,
        ao \in AllowOrigins,
        eh \in {<<>>, <<"X-Custom", "X-Other">>},
        vary \in BOOLEAN}

\* the configurations New is called with: each of the ten settings present
\* or absent
NewPolicies ==
    {Headers(crq, crs, cred, ah, am, ao, eh, age, vary, sec) :
        crq \in {NoMap, OneMap("X-Custom", "v")},
        crs \in {NoMap, OneMap("X-Custom", "v")},
        cred \in BOOLEAN,
        ah \in AllowHeadersSets,
        am \in AllowMethodsSets,
        ao \in {"", "*"},
        eh \in {<<>>, <<"X-Custom", "X-Other">>},
        age \in MaxAges,
        vary \in BOOLEAN,
        sec \in BOOLEAN}

Call(op, origin, in) ==
    [op |-> op, pc |-> "ready", origin |-> origin, in |-> in,
     out |-> in, out2 |-> in, ret |-> "", err |-> "nil",
     handler |-> <<>>, ran |-> <<>>, secureErr |-> "nil", req |-> NoRequest]

\* what the response writer's header collection holds when Header.ServeHTTP is
\* entered: nothing, or what a handler before it in the chain has written
RwHeaders ==
    {EmptyHeader,
     MakeHeader(OneMap("Access-Control-Allow-Origin", <<"http://old">>)),
     MakeHeader(OneMap("Access-Control-Max-Age", <<"5">>)),
     MakeHeader(OneMap("Access-Control-Allow-Headers", <<"X-Old">>)),
     MakeHeader(TwoMap("Access-Control-Allow-Credentials", <<"true">>,
                       "Access-Control-Allow-Methods", <<"POST">>))}

\* the configurations buildHeaders is called with: the rewriter's policies
\* and the secure engine's, each present or absent
BuildPolicies ==
    {Headers(NoMap, crs, cred, <<>>, <<>>, ao, <<>>, 0, vary, sec) :
        crs \in {NoMap, OneMap("X-Custom", "v"), OneMap("X-Frame-Options", "SAMEORIGIN")},
        cred \in BOOLEAN,
        ao \in {"", "*"},
        vary \in BOOLEAN,
        sec \in BOOLEAN}

ServePolicies ==
    {Headers(crq, NoMap, cred, ah, am, ao, <<>>, age, FALSE, FALSE) :
        crq \in {NoMap, OneMap("X-Custom", "v")},
        cred \in BOOLEAN,
        ah \in AllowHeadersSets,
        am \in AllowMethodsSets,
        ao \in AllowOrigins,
        age \in MaxAges}

InitUnit ==
    /\ InitChain
    /\ \/ /\ cfg \in ResolvePolicies
          /\ \E o \in Origins : call = Call("getAllowOrigin", o, EmptyHeader)
       \/ /\ cfg \in RequestPolicies
          /\ \E h \in UnitHeaders : call = Call("modifyRequestHeaders", "", h)
       \/ /\ cfg \in ResponsePolicies
          /\ \E o \in Origins, h \in UnitHeaders \cup {NilHeader} :
                call = Call("ModifyResponseHeaders", o, h)
       \/ /\ cfg \in ServePolicies
          /\ \E q \in Requests, h \in RwHeaders :
                call = [Call("ServeHTTP", "", h) EXCEPT !.req = q]
       \/ /\ cfg \in BuildPolicies
          /\ \E h \in BackendHeaders : call = Call("buildHeaders", "", h)
       \/ /\ cfg \in NewPolicies
          /\ call = Call("New", "", EmptyHeader)

\* the Header the call is made on: originHeader is what an earlier ServeHTTP of
\* the same instance left in it ("" on the instance NewHeader just built)
Receiver == [next |-> "nil", headers |-> cfg, originHeader |-> call.origin]

CallGetAllowOrigin ==
    /\ call.op = "getAllowOrigin"
    /\ call.pc = "ready"
    /\ call' = [call EXCEPT
                   !.pc = "returned",
                   !.ret = getAllowOrigin(Receiver.headers, Receiver.originHeader,
                                          Receiver.originHeader)]
    /\ UNCHANGED <<cfg, chainVars>>

\* Header.ServeHTTP run alone on one request and its response writer; origin
\* is the field s.originHeader, ran the branch taken
CallServeHTTP ==
    /\ call.op = "ServeHTTP"
    /\ call.pc = "ready"
    /\ LET origin == Get(call.req.Header, "Origin")
       IN IF isPreflight(Get(call.req.Header, "Access-Control-Request-Method"),
                         Get(call.req.Header, "Access-Control-Request-Headers"),
                         origin, call.req.Method)
          THEN call' = [call EXCEPT
                           !.pc = "returned",
                           !.origin = origin,
                           !.ran = <<"preflight">>,
                           !.out = preflightTail(cfg, preflightHead(cfg, call.in),
                                       getAllowOrigin(cfg, origin, origin))]
          ELSE \E order \in Orders(cfg.CustomRequestHeaders) :
                  call' = [call EXCEPT
                              !.pc = "returned",
                              !.origin = origin,
                              !.ran = <<"modifyRequestHeaders", "next">>,
                              !.req = [Method |-> call.req.Method,
                                       Header |-> modifyRequestHeaders(
                                                     Receiver, call.req.Header,
                                                     order)]]
    /\ UNCHANGED <<cfg, chainVars>>

\* the closure of buildHeaders applied to a backend response; secureErr is
\* what the secure engine's ModifyResponseHeaders returns when it is run
CallBuildHeaders ==
    /\ call.op = "buildHeaders"
    /\ call.pc = "ready"
    /\ \E order \in Orders(cfg.CustomResponseHeaders), secureErr \in SecureErrs :
          LET r == buildHeaders(cfg, call.in, order, secureErr)
          IN call' = [call EXCEPT !.pc = "returned", !.secureErr = secureErr,
                                  !.out = r.Header, !.err = r.err, !.ran = r.ran]
    /\ UNCHANGED <<cfg, chainVars>>

\* New(ctx, next, config, name): the error and the handler it returns
CallNew ==
    /\ call.op = "New"
    /\ call.pc = "ready"
    /\ call' = [call EXCEPT !.pc = "returned",
                            !.err = New(cfg).err,
                            !.handler = New(cfg).handler]
    /\ UNCHANGED <<cfg, chainVars>>

\* modifyRequestHeaders on a request, and once more on the same request
CallModifyRequestHeaders ==
    /\ call.op = "modifyRequestHeaders"
    /\ \E order \in Orders(cfg.CustomRequestHeaders) :
          \/ /\ call.pc = "ready"
             /\ call' = [call EXCEPT
                            !.pc = "once",
                            !.out = modifyRequestHeaders(Receiver, call.in, order)]
          \/ /\ call.pc = "once"
             /\ call' = [call EXCEPT
                            !.pc = "twice",
                            !.out2 = modifyRequestHeaders(Receiver, call.out, order)]
    /\ UNCHANGED <<cfg, chainVars>>

\* ModifyResponseHeaders on a response, and once more on the same response
CallModifyResponseHeaders ==
    /\ call.op = "ModifyResponseHeaders"
    /\ \E order \in Orders(cfg.CustomResponseHeaders) :
          \/ /\ call.pc = "ready"
             /\ LET r == ModifyResponseHeaders(Receiver, call.in, order)
                IN call' = [call EXCEPT !.pc = "once", !.out = r.Header,
                                        !.err = r.err]
          \/ /\ call.pc = "once"
             /\ ~call.out.panicked
             /\ LET r == ModifyResponseHeaders(Receiver, call.out, order)
                IN call' = [call EXCEPT !.pc = "twice", !.out2 = r.Header,
                                        !.err = r.err]
    /\ UNCHANGED <<cfg, chainVars>>

NextUnit ==
    \/ CallGetAllowOrigin
    \/ CallModifyRequestHeaders
    \/ CallModifyResponseHeaders
    \/ CallServeHTTP
    \/ CallBuildHeaders
    \/ CallNew

SpecUnit == InitUnit /\ [][NextUnit]_vars

(***************************************************************************)
(* Properties                                                              *)
(***************************************************************************)
Contains(seq, v) == \E i \in DOMAIN seq : seq[i] = v

HasRun(r, stage) == Contains(trace[r], stage)

\* the Origin header the client sent with request r
OwnOrigin(r) == Get(req[r].Header, "Origin")

\* the handler New returned starts with a Header
HeaderInChain == Contains(New(cfg).handler, "Header")

\* request r carries the four marks of a preflight
FourConditions(r) ==
    /\ req[r].Method = "OPTIONS"
    /\ Get(req[r].Header, "Origin") # ""
    /\ Get(req[r].Header, "Access-Control-Request-Method") # ""
    /\ Get(req[r].Header, "Access-Control-Request-Headers") # ""

\* Header.ServeHTTP has answered request r itself
PreflightAnswered(r) == pc[r] = "done" /\ HasRun(r, "preflight")

\* the backend has answered request r and the response went through
\* Header.ModifyResponseHeaders
ResponseRewritten(r) ==
    /\ pc[r] = "done"
    /\ HasRun(r, "next")
    /\ Contains(res[r].ran, "ModifyResponseHeaders")

BothConfigured ==
    /\ HasSecureHeadersDefined(cfg)
    /\ HasCustomHeadersDefined(cfg) \/ HasCorsHeadersDefined(cfg)

\* C1: with origin-list-or-null, the Access-Control-Allow-Origin of the
\* preflight response of a request that sent an Origin is that request's own
\* Origin, whatever other requests the same Header serves at the same time.
C1_OwnOriginOnly ==
    \A r \in Reqs :
        (/\ cfg.AccessControlAllowOrigin = "origin-list-or-null"
         /\ PreflightAnswered(r)
         /\ OwnOrigin(r) # "")
        => Values(rw[r], "Access-Control-Allow-Origin") = <<OwnOrigin(r)>>

\* a preflight of origin http://a answered with the origin of another request
C1_ForeignOrigin ==
    \E r \in Reqs :
        /\ cfg.AccessControlAllowOrigin = "origin-list-or-null"
        /\ PreflightAnswered(r)
        /\ OwnOrigin(r) = "http://a"
        /\ Values(rw[r], "Access-Control-Allow-Origin") = <<"http://b">>

\* C2: a request that is OPTIONS and carries Origin,
\* Access-Control-Request-Method and Access-Control-Request-Headers is
\* answered by Header.ServeHTTP: s.next is never called for it, so neither
\* the secure handler nor the backend sees it.
C2_PreflightTerminal ==
    \A r \in Reqs :
        (HeaderInChain /\ FourConditions(r))
        => /\ pc[r] \notin {"secureHeader", "next"}
           /\ ~HasRun(r, "modifyRequestHeaders")
           /\ ~HasRun(r, "secure")
           /\ ~HasRun(r, "secure.terminate")
           /\ ~HasRun(r, "next")

\* a preflight handed to the backend
C2_PreflightAtBackend ==
    \E r \in Reqs :
        /\ HeaderInChain
        /\ FourConditions(r)
        /\ pc[r] = "done"
        /\ HasRun(r, "next")

\* C3: with origin-list-or-null, the backend response of a request that
\* sent Origin O leaves the response rewrite with
\* Access-Control-Allow-Origin = O, and "null" only when no Origin was sent.
C3_ReflectsOrigin ==
    \A r \in Reqs :
        (/\ cfg.AccessControlAllowOrigin = "origin-list-or-null"
         /\ ResponseRewritten(r))
        => Values(res[r].Header, "Access-Control-Allow-Origin")
              = <<IF OwnOrigin(r) = "" THEN "null" ELSE OwnOrigin(r)>>

\* a GET with Origin: http://a whose response leaves with "null"
C3_NullForOrigin ==
    \E r \in Reqs :
        /\ cfg.AccessControlAllowOrigin = "origin-list-or-null"
        /\ ResponseRewritten(r)
        /\ req[r].Method = "GET"
        /\ OwnOrigin(r) = "http://a"
        /\ Values(res[r].Header, "Access-Control-Allow-Origin") = <<"null">>

\* C4 as claimed: with secure and custom/CORS headers both configured, the
\* secure delegate runs first; when it ends the request, neither the request
\* rewriter nor the preflight responder nor the backend has run.
C4_DelegateFirst ==
    \A r \in Reqs :
        (BothConfigured /\ HasRun(r, "secure.terminate"))
        => trace[r] = <<"secure.terminate">>

\* C4: with secure and custom/CORS headers both configured, Header.ServeHTTP
\* runs first and the secure delegate after it: the delegate sees a request
\* only after the request rewriter has run on it; when the delegate ends the
\* request the backend does not run; a request answered by the preflight
\* responder reaches neither the delegate nor the backend.
C4_HeaderFirst ==
    \A r \in Reqs :
        BothConfigured
        => /\ pc[r] = "secureHeader" => trace[r] = <<"modifyRequestHeaders">>
           /\ HasRun(r, "secure.terminate")
                 => /\ trace[r] = <<"modifyRequestHeaders", "secure.terminate">>
                    /\ pc[r] = "done"
           /\ HasRun(r, "preflight")
                 => /\ trace[r] = <<"preflight">>
                    /\ pc[r] \in {"Header.216", "Header.219", "done"}

C4_Witness ==
    \E r \in Reqs :
        /\ BothConfigured
        /\ pc[r] = "done"
        /\ trace[r] = <<"modifyRequestHeaders", "secure.terminate">>
        /\ Get(req[r].Header, "X-Custom") = "v"

\* C5: getAllowOrigin returns "*" for "*" whatever the Origin, "null" or the
\* Origin itself for "origin-list-or-null", and "" for every other setting.
C5_GetAllowOriginTable ==
    (call.op = "getAllowOrigin" /\ call.pc = "returned")
    => /\ cfg.AccessControlAllowOrigin = "*" => call.ret = "*"
       /\ (cfg.AccessControlAllowOrigin = "origin-list-or-null" /\ call.origin = "")
             => call.ret = "null"
       /\ (cfg.AccessControlAllowOrigin = "origin-list-or-null" /\ call.origin # "")
             => call.ret = call.origin
       /\ cfg.AccessControlAllowOrigin \notin {"*", "origin-list-or-null"}
             => call.ret = ""

C5_Witness ==
    /\ call.op = "getAllowOrigin"
    /\ call.pc = "returned"
    /\ cfg.AccessControlAllowOrigin = "origin-list-or-null"
    /\ call.origin = "http://b"
    /\ call.ret = "http://b"

\* the policy resolves a non-empty allow-origin ("*" and
\* "origin-list-or-null" always do)
ResolvesOrigin == cfg.AccessControlAllowOrigin \in {"*", "origin-list-or-null"}

\* ModifyResponseHeaders has run once on a response that has a header
\* collection
Rewritten ==
    /\ call.op = "ModifyResponseHeaders"
    /\ call.pc = "once"
    /\ ~call.in.nil

VaryAppended ==
    /\ Get(call.in, "Vary") = "Accept-Encoding"
          => Values(call.out, "Vary") = <<"Accept-Encoding,Origin">>
    /\ Get(call.in, "Vary") = "" => Values(call.out, "Vary") = <<"Origin">>
    /\ Get(call.in, "Vary") # ""
          => Values(call.out, "Vary") = <<Get(call.in, "Vary") \o ",Origin">>

\* C6 as claimed: with AddVaryHeader and a non-empty resolved allow-origin, a
\* response with Vary: Accept-Encoding leaves with Vary: Accept-Encoding,Origin,
\* one without Vary with Vary: Origin, one with value V with V,Origin.
C6_VaryAppend ==
    (Rewritten /\ cfg.AddVaryHeader /\ ResolvesOrigin) => VaryAppended

NamesVary(custom) ==
    \E n \in DOMAIN custom : CanonicalMIMEHeaderKey(n) = "Vary"

\* C6: the same, for a policy whose CustomResponseHeaders do not name Vary;
\* V is the value of the first Vary field line.
C6_VaryAppendUnlessCustom ==
    (/\ Rewritten
     /\ cfg.AddVaryHeader
     /\ ResolvesOrigin
     /\ ~NamesVary(cfg.CustomResponseHeaders))
    => VaryAppended

C6_Witness ==
    /\ Rewritten
    /\ cfg.AddVaryHeader
    /\ cfg.AccessControlAllowOrigin = "origin-list-or-null"
    /\ cfg.CustomResponseHeaders = OneMap("X-Custom", "v")
    /\ Values(call.in, "Vary") = <<"Accept-Encoding">>
    /\ Values(call.out, "Vary") = <<"Accept-Encoding,Origin">>

\* C7: with AccessControlAllowCredentials, the preflight response written by
\* Header.ServeHTTP and every backend response that went through
\* ModifyResponseHeaders carry Access-Control-Allow-Credentials: true, also
\* when no Access-Control-Allow-Origin is emitted.
C7_AllowCredentials ==
    \A r \in Reqs :
        cfg.AccessControlAllowCredentials
        => /\ PreflightAnswered(r)
                 => Contains(Values(rw[r], "Access-Control-Allow-Credentials"), "true")
           /\ ResponseRewritten(r)
                 => Contains(Values(res[r].Header, "Access-Control-Allow-Credentials"),
                             "true")

C7_Witness ==
    \E r \in Reqs :
        /\ cfg.AccessControlAllowCredentials
        /\ cfg.AccessControlAllowOrigin = "http://a"
        /\ ResponseRewritten(r)
        /\ Values(res[r].Header, "Access-Control-Allow-Origin") = <<>>
        /\ Values(res[r].Header, "Access-Control-Allow-Credentials") = <<"true">>

\* C8: every preflight response written by Header.ServeHTTP carries
\* Access-Control-Max-Age with the decimal form of AccessControlMaxAge, "0"
\* for 0, whatever the rest of the policy.
C8_MaxAge ==
    \A r \in Reqs :
        PreflightAnswered(r)
        => /\ cfg.AccessControlMaxAge = 0
                 => Values(rw[r], "Access-Control-Max-Age") = <<"0">>
           /\ cfg.AccessControlMaxAge = 600
                 => Values(rw[r], "Access-Control-Max-Age") = <<"600">>
           /\ cfg.AccessControlMaxAge \in {0, 600}

C8_Witness ==
    \E r \in Reqs :
        /\ PreflightAnswered(r)
        /\ cfg.AccessControlMaxAge = 0
        /\ cfg.AccessControlAllowOrigin = ""
        /\ ~cfg.AccessControlAllowCredentials
        /\ rw[r] = MakeHeader(OneMap("Access-Control-Max-Age", <<"0">>))

\* the mapping has been applied to h: every name with a value holds exactly
\* that value, every name with "" is gone
Applied(custom, h) ==
    \A n \in DOMAIN custom :
        IF custom[n] # "" THEN Values(h, n) = <<custom[n]>>
        ELSE CanonicalMIMEHeaderKey(n) \notin DOMAIN h.kv

\* the policy makes ModifyResponseHeaders run its custom-header loop only
LoopOnly ==
    /\ ~cfg.AccessControlAllowCredentials
    /\ ~ResolvesOrigin
    /\ Len(cfg.AccessControlExposeHeaders) = 0

MappingApplied ==
    /\ (call.op = "modifyRequestHeaders" /\ call.pc \in {"once", "twice"})
          => Applied(cfg.CustomRequestHeaders, call.out)
    /\ (call.op = "modifyRequestHeaders" /\ call.pc = "twice")
          => call.out2 = call.out
    /\ (call.op = "ModifyResponseHeaders" /\ call.pc \in {"once", "twice"}
           /\ ~call.in.nil /\ LoopOnly)
          => Applied(cfg.CustomResponseHeaders, call.out)
    /\ (call.op = "ModifyResponseHeaders" /\ call.pc = "twice"
           /\ ~call.in.nil /\ LoopOnly)
          => call.out2 = call.out

\* C9 as claimed: for any custom-header mapping and any header collection,
\* applying the mapping sets every name with a value, removes every name with
\* "", and a second application changes nothing.
C9_CustomMapping == MappingApplied

DistinctCanonical(custom) ==
    \A a, b \in DOMAIN custom :
        a # b => CanonicalMIMEHeaderKey(a) # CanonicalMIMEHeaderKey(b)

\* C9: the same, for a mapping no two names of which spell the same header
\* (names that differ after canonicalization).
C9_CustomMappingDistinctNames ==
    (/\ DistinctCanonical(cfg.CustomRequestHeaders)
     /\ DistinctCanonical(cfg.CustomResponseHeaders))
    => MappingApplied

C9_Witness ==
    /\ call.op = "modifyRequestHeaders"
    /\ call.pc = "twice"
    /\ cfg.CustomRequestHeaders = TwoMap("X-Custom", "v", "X-Other", "")
    /\ Values(call.in, "X-Custom") = <<"old", "older">>
    /\ Values(call.out, "X-Custom") = <<"v">>
    /\ call.out2 = call.out

\* C10: ModifyResponseHeaders returns nil for every response, also for one
\* whose Header is nil, whatever the policy has it set.
C10_NeverFails ==
    (call.op = "ModifyResponseHeaders" /\ call.pc = "once")
    => /\ ~call.out.panicked
       /\ call.err = "nil"

\* the call on a response without header collection that has to set a header
C10_PanicOnNil ==
    /\ call.op = "ModifyResponseHeaders"
    /\ call.pc = "once"
    /\ call.in.nil
    /\ cfg.AccessControlAllowCredentials
    /\ call.out.panicked

\* at least one of the secure-header, custom-header and CORS policies is
\* configured
Configured ==
    \/ HasSecureHeadersDefined(cfg)
    \/ HasCustomHeadersDefined(cfg)
    \/ HasCorsHeadersDefined(cfg)

\* C11: New returns the configuration error and no handler exactly when
\* none of the three policies is configured; otherwise it returns no error
\* and a handler whose chain ends in the next handler it was given, which
\* occurs in the chain once.
C11_NewFailsIffUnconfigured ==
    (call.op = "New" /\ call.pc = "returned")
    => /\ ~Configured
             => /\ call.err = "headers configuration not valid"
                /\ call.handler = <<>>
       /\ Configured
             => /\ call.err = "nil"
                /\ Len(call.handler) > 0
                /\ call.handler[Len(call.handler)] = "next"
                /\ \A i \in 1..(Len(call.handler) - 1) : call.handler[i] # "next"

\* New called with a configuration that sets nothing
C11_Witness ==
    /\ call.op = "New"
    /\ call.pc = "returned"
    /\ ~Configured
    /\ call.err = "headers configuration not valid"
    /\ call.handler = <<>>

\* the names of the CORS headers the preflight responder writes
PreflightNames ==
    {"Access-Control-Allow-Credentials", "Access-Control-Allow-Headers",
     "Access-Control-Allow-Methods", "Access-Control-Allow-Origin",
     "Access-Control-Max-Age"}

\* Header.ServeHTTP has taken its branch for request r
Branched(r) ==
    HeaderInChain /\ pc[r] \notin {"idle", "Header.126", "Header.130"}

\* C12: Header.ServeHTTP handles request r as a preflight iff r is OPTIONS
\* and carries Origin, Access-Control-Request-Method and
\* Access-Control-Request-Headers; a request that misses one of the four
\* gets the request rewrite first, is handed to the next handler once, and
\* Header.ServeHTTP writes no CORS header to its response writer.
C12_PreflightIffFourConditions ==
    \A r \in Reqs :
        Branched(r)
        => /\ HasRun(r, "preflight") <=> FourConditions(r)
           /\ ~FourConditions(r)
                 => /\ trace[r][1] = "modifyRequestHeaders"
                    /\ \A i \in 2..Len(trace[r]) :
                          trace[r][i] \in {"secure", "secure.terminate", "next"}
                    /\ Applied(cfg.CustomRequestHeaders, req[r].Header)
                    /\ \A n \in PreflightNames : Values(rw[r], n) = <<>>

\* an OPTIONS request without Origin answered as a preflight
C12_PreflightWithoutOrigin ==
    \E r \in Reqs :
        /\ req[r].Method = "OPTIONS"
        /\ OwnOrigin(r) = ""
        /\ PreflightAnswered(r)
        /\ Values(rw[r], "Access-Control-Max-Age") = <<"600">>

\* Header.ServeHTTP, called alone, has answered a preflight
PreflightReturned ==
    /\ call.op = "ServeHTTP"
    /\ call.pc = "returned"
    /\ call.ran = <<"preflight">>

\* C13: after Header.ServeHTTP has answered a preflight, each CORS header it
\* emits holds exactly one value, the one derived from the policy, whatever
\* the response writer's header collection held under that name before.
C13_PreflightSetsOneValue ==
    PreflightReturned
    => /\ cfg.AccessControlAllowCredentials
             => Values(call.out, "Access-Control-Allow-Credentials") = <<"true">>
       /\ Len(cfg.AccessControlAllowHeaders) # 0
             => Values(call.out, "Access-Control-Allow-Headers")
                   = <<Join(cfg.AccessControlAllowHeaders, ",")>>
       /\ Len(cfg.AccessControlAllowMethods) # 0
             => Values(call.out, "Access-Control-Allow-Methods")
                   = <<Join(cfg.AccessControlAllowMethods, ",")>>
       /\ getAllowOrigin(cfg, call.origin, call.origin) # ""
             => Values(call.out, "Access-Control-Allow-Origin")
                   = <<getAllowOrigin(cfg, call.origin, call.origin)>>
       /\ Values(call.out, "Access-Control-Max-Age")
             = <<Itoa(cfg.AccessControlMaxAge)>>

\* a preflight answered on a response writer that already held an
\* Access-Control-Allow-Origin: the header leaves with two values
C13_TwoAllowOrigins ==
    /\ PreflightReturned
    /\ cfg.AccessControlAllowOrigin = "*"
    /\ Values(call.in, "Access-Control-Allow-Origin") = <<"http://old">>
    /\ Values(call.out, "Access-Control-Allow-Origin") = <<"http://old", "*">>

\* a field value without the spaces around it
RECURSIVE TrimSpace(_)
TrimSpace(s) ==
    IF Len(s) = 0 THEN s
    ELSE IF CharAt(s, 1) = " " THEN TrimSpace(SubSeq(s, 2, Len(s)))
    ELSE IF CharAt(s, Len(s)) = " " THEN TrimSpace(SubSeq(s, 1, Len(s) - 1))
    ELSE s

\* the members of the comma-separated list s from position start on, i being
\* the position under inspection
RECURSIVE listFrom(_, _, _)
listFrom(s, start, i) ==
    IF i > Len(s) THEN <<TrimSpace(SubSeq(s, start, Len(s)))>>
    ELSE IF CharAt(s, i) = ","
         THEN <<TrimSpace(SubSeq(s, start, i - 1))>> \o listFrom(s, i + 1, i + 1)
         ELSE listFrom(s, start, i + 1)

RECURSIVE lowerFrom(_, _)
lowerFrom(s, i) ==
    IF i > Len(s) THEN "" ELSE ToLower(CharAt(s, i)) \o lowerFrom(s, i + 1)

\* the members of the lists on the field lines from line i on
RECURSIVE membersFrom(_, _)
membersFrom(lines, i) ==
    IF i > Len(lines) THEN <<>>
    ELSE SelectSeq(listFrom(lines[i], 1, 1), LAMBDA t : t # "")
         \o membersFrom(lines, i + 1)

\* what the Vary header of h carries: the members of the comma-separated
\* lists of all its field lines, in order
VaryMembers(h) == membersFrom(Values(h, "Vary"), 1)

VarySet(h) == {VaryMembers(h)[i] : i \in DOMAIN VaryMembers(h)}

\* how often Vary names the request header Origin (field names are
\* case-insensitive)
OriginCount(h) ==
    Cardinality({i \in DOMAIN VaryMembers(h) :
                    lowerFrom(VaryMembers(h)[i], 1) = "origin"})

\* C14: when CustomResponseHeaders do not name Vary, every member of the
\* response's Vary header before ModifyResponseHeaders, on whichever field
\* line it stood, is a member of the Vary header afterwards.
C14_VaryPreserved ==
    (Rewritten /\ ~NamesVary(cfg.CustomResponseHeaders))
    => VarySet(call.in) \subseteq VarySet(call.out)

\* a response with the field lines Vary: Accept-Encoding and Vary: Cookie
\* that leaves without Cookie
C14_SecondLineLost ==
    /\ Rewritten
    /\ ~NamesVary(cfg.CustomResponseHeaders)
    /\ cfg.AddVaryHeader
    /\ cfg.AccessControlAllowOrigin = "*"
    /\ Values(call.in, "Vary") = <<"Accept-Encoding", "Cookie">>
    /\ Values(call.out, "Vary") = <<"Accept-Encoding,Origin">>
    /\ "Cookie" \notin VarySet(call.out)

\* C15: after ModifyResponseHeaders with AddVaryHeader, applied once or
\* twice to a response, Vary names Origin at most once, also when the
\* backend's response already carried Vary: Origin.
C15_OriginAtMostOnce ==
    (/\ call.op = "ModifyResponseHeaders"
     /\ ~call.in.nil
     /\ cfg.AddVaryHeader)
    => /\ call.pc \in {"once", "twice"} => OriginCount(call.out) <= 1
       /\ call.pc = "twice" => OriginCount(call.out2) <= 1

\* a response without Vary that leaves the second application with
\* Vary: Origin,Origin
C15_OriginTwice ==
    /\ call.op = "ModifyResponseHeaders"
    /\ call.pc = "twice"
    /\ cfg.AddVaryHeader
    /\ cfg.AccessControlAllowOrigin = "*"
    /\ cfg.CustomResponseHeaders = NoMap
    /\ Values(call.in, "Vary") = <<>>
    /\ Values(call.out, "Vary") = <<"Origin">>
    /\ Values(call.out2, "Vary") = <<"Origin,Origin">>
    /\ OriginCount(call.out2) = 2

\* the allow-origin setting is neither "*" nor "origin-list-or-null"
Unsupported ==
    cfg.AccessControlAllowOrigin \notin {"*", "origin-list-or-null"}

NamesHeader(custom, name) ==
    \E n \in DOMAIN custom : CanonicalMIMEHeaderKey(n) = name

\* C16: with an allow-origin setting other than "*" and
\* "origin-list-or-null" (the empty string and an explicit origin included)
\* getAllowOrigin returns "", the preflight responder leaves
\* Access-Control-Allow-Origin as the response writer held it, and
\* ModifyResponseHeaders leaves Access-Control-Allow-Origin and Vary as the
\* response held them unless CustomResponseHeaders name them, also with
\* AddVaryHeader.
C16_UnsupportedSuppressed ==
    Unsupported
    => /\ (call.op = "getAllowOrigin" /\ call.pc = "returned") => call.ret = ""
       /\ PreflightReturned
             => Values(call.out, "Access-Control-Allow-Origin")
                   = Values(call.in, "Access-Control-Allow-Origin")
       /\ (Rewritten
            /\ ~NamesHeader(cfg.CustomResponseHeaders, "Access-Control-Allow-Origin"))
             => Values(call.out, "Access-Control-Allow-Origin")
                   = Values(call.in, "Access-Control-Allow-Origin")
       /\ (Rewritten /\ ~NamesHeader(cfg.CustomResponseHeaders, "Vary"))
             => Values(call.out, "Vary") = Values(call.in, "Vary")

\* the response to a request of origin http://a under the explicit origin
\* http://a and AddVaryHeader: nothing but the credentials header is written
C16_Witness ==
    /\ Rewritten
    /\ cfg.AccessControlAllowOrigin = "http://a"
    /\ call.origin = "http://a"
    /\ cfg.AddVaryHeader
    /\ cfg.AccessControlAllowCredentials
    /\ cfg.CustomResponseHeaders = NoMap
    /\ Len(cfg.AccessControlExposeHeaders) = 0
    /\ call.in = MakeHeader(OneMap("Vary", <<"Accept-Encoding">>))
    /\ call.out = Set(call.in, "Access-Control-Allow-Credentials", "true")

\* C17: the closure of buildHeaders runs Header.ModifyResponseHeaders when
\* custom or CORS headers are configured and only then, the secure engine's
\* ModifyResponseHeaders when secure headers are configured and only then,
\* the former before the latter; it returns the engine's error as the
\* engine returned it, and nil when the engine did not run or returned nil.
C17_RewriterThenDelegate ==
    (call.op = "buildHeaders" /\ call.pc = "returned")
    => /\ call.ran \in {<<>>, <<"ModifyResponseHeaders">>,
                        <<"secure.ModifyResponseHeaders">>,
                        <<"ModifyResponseHeaders", "secure.ModifyResponseHeaders">>}
       /\ Contains(call.ran, "ModifyResponseHeaders")
             <=> (HasCustomHeadersDefined(cfg) \/ HasCorsHeadersDefined(cfg))
       /\ Contains(call.ran, "secure.ModifyResponseHeaders")
             <=> HasSecureHeadersDefined(cfg)
       /\ Contains(call.ran, "secure.ModifyResponseHeaders")
             => call.err = call.secureErr
       /\ ~Contains(call.ran, "secure.ModifyResponseHeaders")
             => call.err = "nil"
       /\ (Contains(call.ran, "secure.ModifyResponseHeaders")
            /\ call.secureErr = "nil")
             => Values(call.out, "X-Frame-Options") = <<"DENY">>

\* both configured and the engine fails: the rewriter has run, the engine's
\* error comes back
C17_Witness ==
    /\ call.op = "buildHeaders"
    /\ call.pc = "returned"
    /\ HasSecureHeadersDefined(cfg)
    /\ cfg.AccessControlAllowOrigin = "*"
    /\ call.secureErr = "secure: error"
    /\ call.ran = <<"ModifyResponseHeaders", "secure.ModifyResponseHeaders">>
    /\ call.err = "secure: error"
    /\ Values(call.out, "Access-Control-Allow-Origin") = <<"*">>

====
